---- MODULE Spec2Model ----
(***************************************************************************)
(* Model of src/pages/Index.tsx (MovieSearchApp): the component state, the *)
(* debounced search input, the three fetchers (trending, search, detail)   *)
(* and the user events of the page.                                        *)
(*                                                                         *)
(* Every asynchronous function is split at its `await fetch`: the part up  *)
(* to the await runs inside the event that calls it, the server answers in *)
(* a step of its own, and the continuation (the rest of try/catch/finally) *)
(* is one more step.  Time is in milliseconds.                             *)
(***************************************************************************)
EXTENDS Integers, Sequences, FiniteSets

\* ---------------------------------------------------------------- bounds
MaxTime == 1250        \* the clock stops here
TickMs == 250          \* granularity of the clock
MaxQueryLen == 2       \* longest text typed into the search box
MaxTrending == 12      \* largest trending response (movies in the database)
MaxCardIndex == 2      \* the user activates one of the first cards of a grid
MaxDetailReqs == 2     \* card activations in one run

\* ------------------------------------------------------ program constants
Delay == 500           \* debounce(searchMovies, 500)
TrendingLimit == 10    \* data.results.slice(0, 10)

\* ------------------------------------------------------------ data model
Chars == {" ", "a"}

IsWhitespace(c) == c = " "

Queries == UNION {[1..n -> Chars] : n \in 0..MaxQueryLen}

RECURSIVE TrimStart(_)
TrimStart(s) ==
  IF s # <<>> /\ IsWhitespace(Head(s)) THEN TrimStart(Tail(s)) ELSE s

RECURSIVE TrimEnd(_)
TrimEnd(s) ==
  IF s # <<>> /\ IsWhitespace(s[Len(s)])
  THEN TrimEnd(SubSeq(s, 1, Len(s) - 1))
  ELSE s

\* String.prototype.trim
Trim(s) == TrimEnd(TrimStart(s))

\* the movie database behind the API: ids 1..MaxTrending
Title(id) ==
  IF id = 2 THEN <<"a">> ELSE IF id = 3 THEN <<"a", "a">> ELSE <<"t">>

Movie(id) == [id |-> id, title |-> Title(id)]

NoMovie == [id |-> 0, title |-> <<>>]      \* selectedMovie = null
NoDetails == [id |-> 0]                     \* movieDetails = null
Details(id) == [id |-> id]                  \* GET /movie/{id}

Min(a, b) == IF a < b THEN a ELSE b

\* Array.prototype.slice(0, n)
Slice(s, n) == SubSeq(s, 1, Min(Len(s), n))

RemoveAt(s, i) == SubSeq(s, 1, i - 1) \o SubSeq(s, i + 1, Len(s))

\* ------------------------------------------------------------ responses
Pending == [kind |-> "pending", results |-> <<>>]
HttpError == [kind |-> "httpError", results |-> <<>>]   \* !response.ok
Thrown == [kind |-> "thrown", results |-> <<>>]         \* fetch or json() throws
NoArray == [kind |-> "noArray", results |-> <<>>]       \* ok, data.results is no array
Ok(rs) == [kind |-> "ok", results |-> rs]               \* ok, data.results = rs

Failed(r) == r.kind \in {"httpError", "thrown"}

Contains(t, q) ==
  \E i \in 1..(Len(t) - Len(q) + 1) : SubSeq(t, i, i + Len(q) - 1) = q

IsHit(id, q) == Contains(Title(id), q)

RECURSIVE HitsFrom(_, _)
HitsFrom(id, q) ==
  IF id > MaxTrending THEN <<>>
  ELSE (IF IsHit(id, q) THEN <<Movie(id)>> ELSE <<>>) \o HitsFrom(id + 1, q)

\* GET /search/movie?query=q
Hits(q) == HitsFrom(1, q)

SearchResponses(q) == {Ok(Hits(q)), NoArray, HttpError, Thrown}

TrendingSizes == {0, 2, TrendingLimit, MaxTrending}

\* GET /trending/movie/week
TrendingResponses ==
  {Ok([i \in 1..n |-> Movie(i)]) : n \in TrendingSizes} \cup {NoArray, HttpError, Thrown}

DetailResponses(id) ==
  {[kind |-> "ok", results |-> <<Details(id)>>], HttpError, Thrown}

ToastKinds == {"searchComplete", "noResults", "searchError", "trendingError", "detailError"}

\* ---------------------------------------------------------------- state
VARIABLES
  searchQuery,      \* useState('')
  movies,           \* useState<Movie[]>([])
  trendingMovies,   \* useState<Movie[]>([])
  loading,          \* useState(false)
  trendingLoading,  \* useState(false)
  selectedMovie,    \* useState<Movie | null>(null)
  movieDetails,     \* useState<any>(null)
  isDialogOpen,     \* useState(false)
  timeoutId,        \* the closure variable of debounce
  timers,           \* the browser's live timers: [id, due, args]
  now,              \* the clock
  searchPending,    \* search fetches awaiting, in issue order: [query, resp]
  trendingPending,  \* the trending fetch awaiting: <<>> or <<resp>>
  detailPending,    \* detail fetches awaiting, in issue order: [n, id, resp]
  toasts,           \* toast() calls made so far, by kind
  lastCall,         \* history: time and argument of the last debouncedSearch call
  invocations,      \* history: arguments of the searchMovies calls, in order
  activations,      \* history: number of handleMovieClick calls
  trendingData      \* history: the response fetchTrendingMovies received

vars == <<searchQuery, movies, trendingMovies, loading, trendingLoading,
          selectedMovie, movieDetails, isDialogOpen, timeoutId, timers, now,
          searchPending, trendingPending, detailPending, toasts, lastCall,
          invocations, activations, trendingData>>

uiVars == <<searchQuery, movies, trendingMovies, loading, trendingLoading,
            selectedMovie, movieDetails, isDialogOpen>>

Toast(kind) == toasts' = [toasts EXCEPT ![kind] = @ + 1]

\* ------------------------------------------------------------- debounce
\* setTimeout returns an id no live timer has
NewTimerId(live) ==
  CHOOSE n \in 1..(Cardinality(live) + 1) : n \notin {t.id : t \in live}

\* clearTimeout(id)
ClearTimeout(ts, id) == {t \in ts : t.id # id}

\* debounce without its clearTimeout: timers stack
DebouncedNoClear(ts, id, args, at) ==
  LET new == NewTimerId(ts)
  IN  [timers |-> ts \cup {[id |-> new, due |-> at + Delay, args |-> args]},
       timeoutId |-> new]

\* debounce that ignores a call while a timer is pending
DebouncedKeepsFirst(ts, id, args, at) ==
  IF ts # {}
  THEN [timers |-> ts, timeoutId |-> id]
  ELSE [timers |-> {[id |-> 1, due |-> at + Delay, args |-> args]}, timeoutId |-> 1]

\* the invoker debounce returns, called with args at time `at`:
\*   clearTimeout(timeoutId); timeoutId = setTimeout(() => func(args), delay)
Debounced(ts, id, args, at) ==
  LET cleared == ClearTimeout(ts, id)
      new == NewTimerId(cleared)
  IN  [timers |-> cleared \cup {[id |-> new, due |-> at + Delay, args |-> args]},
       timeoutId |-> new]

\* useEffect(() => debouncedSearch(searchQuery), [searchQuery, debouncedSearch]):
\* after a render in which the query has changed to q
QueryEffect(q) ==
  IF q = searchQuery
  THEN UNCHANGED <<timers, timeoutId, lastCall>>
  ELSE LET d == Debounced(timers, timeoutId, q, now)
       IN  /\ timers' = d.timers
           /\ timeoutId' = d.timeoutId
           /\ lastCall' = [time |-> now, args |-> q]

\* the horizon leaves room for a timer set now to fire
CanSchedule == now + Delay <= MaxTime

\* ----------------------------------------------------------------- view
\* the grid rendered by the return statement: the cards on the page
ShownCards ==
  IF searchQuery # <<>>
  THEN (IF loading THEN <<>> ELSE movies)
  ELSE (IF trendingLoading THEN <<>> ELSE trendingMovies)

\* <Dialog open={isDialogOpen && selectedMovie?.id === movie.id}> of a rendered card
DialogShown ==
  /\ isDialogOpen
  /\ \E i \in 1..Len(ShownCards) : ShownCards[i].id = selectedMovie.id

\* an open dialog is modal: the page behind it takes no input
PageTakesInput == ~DialogShown

\* ------------------------------------------------------------- searchMovies
\* the blank test without trim(): !query
IsBlankNoTrim(query) == query = <<>>

\* !query.trim()
IsBlank(query) == Trim(query) = <<>>

\* searchMovies(query) up to its await
SearchStart(query) ==
  IF IsBlank(query)
  THEN /\ movies' = <<>>
       /\ UNCHANGED <<loading, searchPending>>
  ELSE /\ loading' = TRUE
       /\ searchPending' = Append(searchPending, [query |-> query, resp |-> Pending])
       /\ UNCHANGED movies

\* searchMovies whose catch block does not clear the list
SearchOutcomeKeepsOnError(req, old) ==
  IF req.resp.kind = "ok" THEN [movies |-> req.resp.results, toast |-> "searchComplete"]
  ELSE IF req.resp.kind = "noArray" THEN [movies |-> <<>>, toast |-> "noResults"]
  ELSE [movies |-> old, toast |-> "searchError"]

\* searchMovies that drops the results of a query that is no longer current
SearchOutcomeDropsSuperseded(req, old) ==
  IF req.resp.kind = "ok"
  THEN [movies |-> IF req.query = searchQuery THEN req.resp.results ELSE old,
        toast |-> "searchComplete"]
  ELSE IF req.resp.kind = "noArray" THEN [movies |-> <<>>, toast |-> "noResults"]
  ELSE [movies |-> <<>>, toast |-> "searchError"]

\* what searchMovies does once the response to request req is in; old is the
\* result list at that moment
SearchOutcome(req, old) ==
  IF req.resp.kind = "ok" THEN [movies |-> req.resp.results, toast |-> "searchComplete"]
  ELSE IF req.resp.kind = "noArray" THEN [movies |-> <<>>, toast |-> "noResults"]
  ELSE [movies |-> <<>>, toast |-> "searchError"]

\* ------------------------------------------------------------- actions
Init ==
  /\ searchQuery = <<>>
  /\ movies = <<>>
  /\ trendingMovies = <<>>
  /\ loading = FALSE
  /\ trendingLoading = TRUE                 \* mount effect: fetchTrendingMovies()
  /\ trendingPending = <<Pending>>
  /\ selectedMovie = NoMovie
  /\ movieDetails = NoDetails
  /\ isDialogOpen = FALSE
  /\ now = 0
  /\ timers = Debounced({}, 0, <<>>, 0).timers     \* mount effect: debouncedSearch('')
  /\ timeoutId = Debounced({}, 0, <<>>, 0).timeoutId
  /\ searchPending = <<>>
  /\ detailPending = <<>>
  /\ toasts = [k \in ToastKinds |-> 0]
  /\ lastCall = [time |-> 0, args |-> <<>>]
  /\ invocations = <<>>
  /\ activations = 0
  /\ trendingData = Pending

\* time passes
Tick ==
  /\ now + TickMs <= MaxTime
  /\ now' = now + TickMs
  /\ UNCHANGED <<uiVars, timeoutId, timers, searchPending, trendingPending,
                 detailPending, toasts, lastCall, invocations, activations, trendingData>>

\* onChange of the search box: setSearchQuery(e.target.value)
Type(v) ==
  /\ PageTakesInput
  /\ v # searchQuery
  /\ CanSchedule
  /\ searchQuery' = v
  /\ QueryEffect(v)
  /\ UNCHANGED <<movies, trendingMovies, loading, trendingLoading, selectedMovie,
                 movieDetails, isDialogOpen, now, searchPending, trendingPending,
                 detailPending, toasts, invocations, activations, trendingData>>

\* a debounce timer expires: func.apply(null, args), i.e. searchMovies(args)
TimerFire(t) ==
  /\ t \in timers
  /\ now >= t.due
  /\ timers' = timers \ {t}
  /\ SearchStart(t.args)
  /\ invocations' = Append(invocations, t.args)
  /\ UNCHANGED <<searchQuery, trendingMovies, trendingLoading, selectedMovie,
                 movieDetails, isDialogOpen, timeoutId, now, trendingPending,
                 detailPending, toasts, lastCall, activations, trendingData>>

\* the API answers search request i
SearchRespond(i, r) ==
  /\ i \in 1..Len(searchPending)
  /\ searchPending[i].resp = Pending
  /\ r \in SearchResponses(searchPending[i].query)
  /\ searchPending' = [searchPending EXCEPT ![i].resp = r]
  /\ UNCHANGED <<uiVars, timeoutId, timers, now, trendingPending, detailPending,
                 toasts, lastCall, invocations, activations, trendingData>>

\* searchMovies after its await, for request i
SearchResume(i) ==
  /\ i \in 1..Len(searchPending)
  /\ searchPending[i].resp # Pending
  /\ LET out == SearchOutcome(searchPending[i], movies)
     IN  /\ movies' = out.movies
         /\ Toast(out.toast)
  /\ searchPending' = RemoveAt(searchPending, i)
  /\ loading' = FALSE                      \* finally
  /\ UNCHANGED <<searchQuery, trendingMovies, trendingLoading, selectedMovie,
                 movieDetails, isDialogOpen, timeoutId, timers, now,
                 trendingPending, detailPending, lastCall, invocations, activations, trendingData>>

\* ------------------------------------------------------ fetchTrendingMovies
\* fetchTrendingMovies without slice(0, 10)
TrendingOutcomeNoSlice(r, old) ==
  IF r.kind = "ok" THEN r.results ELSE old

\* what fetchTrendingMovies stores once the response r is in
TrendingOutcome(r, old) ==
  IF r.kind = "ok" THEN Slice(r.results, TrendingLimit) ELSE old

\* the API answers the trending request
TrendingRespond(r) ==
  /\ trendingPending = <<Pending>>
  /\ r \in TrendingResponses
  /\ trendingPending' = <<r>>
  /\ UNCHANGED <<uiVars, timeoutId, timers, now, searchPending, detailPending,
                 toasts, lastCall, invocations, activations, trendingData>>

\* fetchTrendingMovies after its await
TrendingResume ==
  /\ trendingPending # <<>>
  /\ trendingPending[1] # Pending
  /\ trendingMovies' = TrendingOutcome(trendingPending[1], trendingMovies)
  /\ IF Failed(trendingPending[1]) THEN Toast("trendingError") ELSE UNCHANGED toasts
  /\ trendingLoading' = FALSE               \* finally
  /\ trendingPending' = <<>>
  /\ trendingData' = trendingPending[1]
  /\ UNCHANGED <<searchQuery, movies, loading, selectedMovie, movieDetails,
                 isDialogOpen, timeoutId, timers, now, searchPending,
                 detailPending, lastCall, invocations, activations>>

\* -------------------------------------------------------- fetchMovieDetails
\* what fetchMovieDetails stores once the response r is in
DetailOutcome(r, old) ==
  IF r.kind = "ok" THEN r.results[1] ELSE old

\* handleMovieClick(movie), with fetchMovieDetails(movie.id) up to its await
HandleMovieClick(movie) ==
  /\ selectedMovie' = movie
  /\ movieDetails' = NoDetails
  /\ isDialogOpen' = TRUE
  /\ detailPending' = Append(detailPending,
                             [n |-> activations + 1, id |-> movie.id, resp |-> Pending])

\* onClick of a card of the grid
Click(i) ==
  /\ PageTakesInput
  /\ i \in 1..Min(Len(ShownCards), MaxCardIndex)
  /\ activations < MaxDetailReqs
  /\ HandleMovieClick(ShownCards[i])
  /\ activations' = activations + 1
  /\ UNCHANGED <<searchQuery, movies, trendingMovies, loading, trendingLoading,
                 timeoutId, timers, now, searchPending, trendingPending, toasts,
                 lastCall, invocations, trendingData>>

\* the API answers detail request i
DetailRespond(i, r) ==
  /\ i \in 1..Len(detailPending)
  /\ detailPending[i].resp = Pending
  /\ r \in DetailResponses(detailPending[i].id)
  /\ detailPending' = [detailPending EXCEPT ![i].resp = r]
  /\ UNCHANGED <<uiVars, timeoutId, timers, now, searchPending, trendingPending,
                 toasts, lastCall, invocations, activations, trendingData>>

\* fetchMovieDetails after its await, for request i
DetailResume(i) ==
  /\ i \in 1..Len(detailPending)
  /\ detailPending[i].resp # Pending
  /\ movieDetails' = DetailOutcome(detailPending[i].resp, movieDetails)
  /\ IF Failed(detailPending[i].resp) THEN Toast("detailError") ELSE UNCHANGED toasts
  /\ detailPending' = RemoveAt(detailPending, i)
  /\ UNCHANGED <<searchQuery, movies, trendingMovies, loading, trendingLoading,
                 selectedMovie, isDialogOpen, timeoutId, timers, now,
                 searchPending, trendingPending, lastCall, invocations, activations, trendingData>>

\* ---------------------------------------------------------- handleBackToHome
\* handleBackToHome that also discards the detail record
HandleBackToHomeDiscards ==
  /\ searchQuery # <<>> => CanSchedule
  /\ searchQuery' = <<>>
  /\ movies' = <<>>
  /\ movieDetails' = NoDetails
  /\ QueryEffect(<<>>)
  /\ UNCHANGED <<trendingMovies, loading, trendingLoading, selectedMovie,
                 isDialogOpen, now, searchPending, trendingPending,
                 detailPending, toasts, invocations, activations, trendingData>>

\* handleBackToHome that also closes the dialog
HandleBackToHomeCloses ==
  /\ searchQuery # <<>> => CanSchedule
  /\ searchQuery' = <<>>
  /\ movies' = <<>>
  /\ isDialogOpen' = FALSE
  /\ QueryEffect(<<>>)
  /\ UNCHANGED <<trendingMovies, loading, trendingLoading, selectedMovie,
                 movieDetails, now, searchPending, trendingPending,
                 detailPending, toasts, invocations, activations, trendingData>>

\* handleBackToHome(): setSearchQuery(''); setMovies([]), and the query effect
HandleBackToHome ==
  /\ searchQuery # <<>> => CanSchedule
  /\ searchQuery' = <<>>
  /\ movies' = <<>>
  /\ QueryEffect(<<>>)
  /\ UNCHANGED <<trendingMovies, loading, trendingLoading, selectedMovie,
                 movieDetails, isDialogOpen, now, searchPending, trendingPending,
                 detailPending, toasts, invocations, activations, trendingData>>

\* the dialog is dismissed: onOpenChange(false)
Dismiss ==
  /\ DialogShown
  /\ HandleBackToHome

\* the "Back to Home" button inside the dialog
BackToHome ==
  /\ DialogShown
  /\ HandleBackToHome

\* the "Back to Trending" button, rendered while the query is not empty
BackToTrending ==
  /\ PageTakesInput
  /\ searchQuery # <<>>
  /\ HandleBackToHome

\* ------------------------------------------------------------ specification
Next ==
  \/ Tick
  \/ \E v \in Queries : Type(v)
  \/ \E t \in timers : TimerFire(t)
  \/ \E i \in 1..Len(searchPending) : \E r \in SearchResponses(searchPending[i].query) :
       SearchRespond(i, r)
  \/ \E i \in 1..Len(searchPending) : SearchResume(i)
  \/ \E r \in TrendingResponses : TrendingRespond(r)
  \/ TrendingResume
  \/ \E i \in 1..MaxCardIndex : Click(i)
  \/ \E i \in 1..Len(detailPending) : \E r \in DetailResponses(detailPending[i].id) :
       DetailRespond(i, r)
  \/ \E i \in 1..Len(detailPending) : DetailResume(i)
  \/ Dismiss
  \/ BackToHome
  \/ BackToTrending

Spec == Init /\ [][Next]_vars

\* time passes and a due timer runs
LiveSpec == Spec /\ WF_vars(Tick) /\ WF_vars(\E t \in timers : TimerFire(t))

\* ------------------------------------------------------------ step shapes
Last(s) == s[Len(s)]

\* this step calls searchMovies
SearchInvoked == Len(invocations') = Len(invocations) + 1

\* this step takes the answered search request i out of the awaiting ones;
\* anything it adds behind the others is a new, unanswered request
SearchConsumed(i) ==
  /\ searchPending[i].resp # Pending
  /\ Len(searchPending') >= Len(searchPending) - 1
  /\ SubSeq(searchPending', 1, Len(searchPending) - 1) = RemoveAt(searchPending, i)
  /\ \A j \in Len(searchPending)..Len(searchPending') : searchPending'[j].resp = Pending

\* likewise for the answered detail request i
DetailConsumed(i) ==
  /\ detailPending[i].resp # Pending
  /\ Len(detailPending') >= Len(detailPending) - 1
  /\ SubSeq(detailPending', 1, Len(detailPending) - 1) = RemoveAt(detailPending, i)
  /\ \A j \in Len(detailPending)..Len(detailPending') : detailPending'[j].resp = Pending

\* ------------------------------------------------------------------- C1
\* C1: a searchMovies call whose query is empty or whitespace-only after
\* trimming issues no request, leaves the result list empty and does not
\* touch the busy flag.
C1_BlankSearchIssuesNothing ==
  [][(SearchInvoked /\ Trim(Last(invocations')) = <<>>) =>
       /\ searchPending' = searchPending
       /\ trendingPending' = trendingPending
       /\ detailPending' = detailPending
       /\ movies' = <<>>
       /\ loading' = loading]_vars

\* a whitespace-only, non-empty query has been searched while a request of an
\* earlier search was still awaited, and the busy flag stayed set
C1_Witness ==
  /\ invocations # <<>>
  /\ Last(invocations) # <<>>
  /\ Trim(Last(invocations)) = <<>>
  /\ movies = <<>>
  /\ Len(searchPending) = 1
  /\ loading

\* ------------------------------------------------------------------- C2
\* C2: when the continuation of a search request runs on a non-success status
\* or a thrown fetch, the result list becomes empty, exactly one failure
\* notification is recorded and no other, and no request is issued again.
C2_FailedSearchClears ==
  [][\A i \in 1..Len(searchPending) :
       (Failed(searchPending[i].resp) /\ SearchConsumed(i)) =>
         /\ movies' = <<>>
         /\ toasts' = [toasts EXCEPT !["searchError"] = @ + 1]
         /\ searchPending' = RemoveAt(searchPending, i)
         /\ trendingPending' = trendingPending
         /\ detailPending' = detailPending
         /\ timers' = timers]_vars

\* a search succeeded with hits and a later one failed: the list is empty
C2_Witness ==
  /\ toasts["searchError"] = 1
  /\ toasts["searchComplete"] = 1
  /\ toasts["noResults"] = 0
  /\ Len(invocations) = 2
  /\ Hits(invocations[1]) # <<>>
  /\ searchPending = <<>>
  /\ timers = {}
  /\ searchQuery # <<>>
  /\ movies = <<>>

\* ------------------------------------------------------------------- C3
\* C3: the debounced invoker keeps at most one pending timer; every call leaves
\* exactly the timer it has set, due one delay later with its arguments; the
\* callback runs no earlier than one delay after the last call, with the
\* arguments of the last call, and leaves no timer behind (so once per burst).
C3_Debounce ==
  /\ [](Cardinality(timers) <= 1)
  /\ [][(lastCall' # lastCall) =>
          timers' = {[id |-> timeoutId', due |-> now + Delay, args |-> searchQuery']}]_vars
  /\ [][SearchInvoked =>
          /\ now >= lastCall.time + Delay
          /\ Last(invocations') = lastCall.args
          /\ timers' = {}]_vars

\* the mount call at 0 and a call one tick later made one burst: the callback
\* has run once, with the later call's argument
C3_Witness ==
  /\ lastCall.time = TickMs
  /\ lastCall.args # <<>>
  /\ invocations = <<lastCall.args>>
  /\ timers = {}

\* ------------------------------------------------------------------- C4
\* C4: while a search request is issued and not completed, the busy flag is set.
C4_BusyWhileOutstanding == searchPending # <<>> => loading

\* ------------------------------------------------------------------- C5
\* C5: a search response is applied when its continuation runs, whatever the
\* current query and whatever else is outstanding, and a request leaves the
\* awaiting ones only by its continuation running (none is cancelled); so the
\* list can end up holding the results of a superseded query.
C5_CompletionOrderWins ==
  /\ [][\A i \in 1..Len(searchPending) :
          (searchPending[i].resp.kind = "ok" /\ SearchConsumed(i)) =>
            movies' = searchPending[i].resp.results]_vars
  /\ [][Len(searchPending') < Len(searchPending) =>
          \E i \in 1..Len(searchPending) :
            /\ searchPending[i].resp # Pending
            /\ searchPending' = RemoveAt(searchPending, i)]_vars
  /\ [][\A i \in 1..Len(searchPending) :
          searchPending[i].resp = Pending =>
            \E j \in 1..Len(searchPending') : searchPending'[j].query = searchPending[i].query]_vars

\* q1 was searched, then q2; both succeeded, q1's response was applied last:
\* the list holds q1's hits, the query is q2 and nothing is outstanding
C5_Witness ==
  /\ Len(invocations) = 2
  /\ invocations[2] = searchQuery
  /\ invocations[1] # invocations[2]
  /\ toasts["searchComplete"] = 2
  /\ searchPending = <<>>
  /\ movies # <<>>
  /\ movies = Hits(invocations[1])
  /\ movies # Hits(searchQuery)

\* ------------------------------------------------------------------- C6
\* C6: when the detail request of the latest card activation fails, the detail
\* record is unset afterwards, the selected item is unchanged and exactly one
\* failure notification is recorded.
C6_FailedDetailLeavesUnset ==
  [][\A i \in 1..Len(detailPending) :
       (detailPending[i].n = activations /\ Failed(detailPending[i].resp)
          /\ DetailConsumed(i)) =>
         /\ movieDetails' = NoDetails
         /\ selectedMovie' = selectedMovie
         /\ toasts' = [toasts EXCEPT !["detailError"] = @ + 1]]_vars

\* ------------------------------------------------------------------- C7
\* C7: right after the dialog is dismissed or "Back to Home" is pressed, and
\* right after a different item is selected, the detail record is unset.
C7_DetailsDiscarded ==
  [][((DialogShown /\ HandleBackToHome) \/ selectedMovie' # selectedMovie) =>
       movieDetails' = NoDetails]_vars

\* ------------------------------------------------------------------- C8
\* C8: after a successful trending response of n items the trending list is
\* its first min(n, 10) items in order; the list never exceeds ten entries.
C8_TrendingTruncated ==
  /\ Len(trendingMovies) <= TrendingLimit
  /\ trendingData.kind = "ok" =>
       /\ Len(trendingMovies) = Min(Len(trendingData.results), TrendingLimit)
       /\ \A i \in 1..Len(trendingMovies) : trendingMovies[i] = trendingData.results[i]

\* a response of more than ten items was received and ten are stored
C8_Witness ==
  /\ trendingData.kind = "ok"
  /\ Len(trendingData.results) = MaxTrending
  /\ Len(trendingMovies) = TrendingLimit
  /\ ~trendingLoading

\* ------------------------------------------------------------------- C9
SearchStep == SearchInvoked \/ \E i \in 1..Len(searchPending) : SearchConsumed(i)

TrendingStep ==
  /\ trendingPending # <<>>
  /\ trendingPending[1] # Pending
  /\ trendingPending' = <<>>

DetailStep == \E i \in 1..Len(detailPending) : DetailConsumed(i)

ClickStep == activations' = activations + 1

\* C9: the result list is changed only by steps of searchMovies, the trending
\* list only by fetchTrendingMovies, the detail record only by
\* fetchMovieDetails.
C9_SingleWriter ==
  [][/\ movies' # movies => SearchStep
     /\ trendingMovies' # trendingMovies => TrendingStep
     /\ movieDetails' # movieDetails => DetailStep]_vars

\* C9, amended: besides its fetcher, the result list is written by
\* handleBackToHome, which empties it, and the detail record by a card
\* activation, which unsets it; the trending list has its fetcher alone.
C9_Writers ==
  [][/\ movies' # movies => (SearchStep \/ (HandleBackToHome /\ movies' = <<>>))
     /\ trendingMovies' # trendingMovies => TrendingStep
     /\ movieDetails' # movieDetails =>
          (DetailStep \/ (ClickStep /\ movieDetails' = NoDetails))]_vars

\* the one search made succeeded with hits, and the list is empty again: it
\* was emptied by handleBackToHome; and the first activation's record, fetched
\* with success, has been unset by the second activation
C9_Witness ==
  /\ Len(invocations) = 1
  /\ Hits(invocations[1]) # <<>>
  /\ toasts["searchComplete"] = 1
  /\ searchPending = <<>>
  /\ movies = <<>>
  /\ searchQuery = <<>>
  /\ activations = 2
  /\ toasts["detailError"] = 0
  /\ Len(detailPending) = 1
  /\ detailPending[1].n = 2
  /\ movieDetails = NoDetails

\* ------------------------------------------------------------------ C10
\* C10: if the query stops changing, searchMovies is eventually called with
\* the final query and no call follows it; and searchMovies is never called
\* less than one delay after the last change of the query.
C10_DebouncedSearchRuns ==
  /\ \A q \in Queries :
       <>[](searchQuery = q) =>
         <>[](timers = {} /\ invocations # <<>> /\ Last(invocations) = q)
  /\ [][now < lastCall.time + Delay => ~SearchInvoked]_vars

\* the query was changed after mount and the search for it has run
C10_Witness ==
  /\ lastCall.time > 0
  /\ searchQuery # <<>>
  /\ timers = {}
  /\ invocations # <<>>
  /\ Last(invocations) = searchQuery

\* ------------------------------------------------------------------ C11
\* C11: whenever the detail record is set, it is the record of the selected
\* item: its id is the selected item's id.
C11_DetailsOfSelected ==
  movieDetails # NoDetails => movieDetails.id = selectedMovie.id

\* ------------------------------------------------------------------ C12
\* C12: dismissing the dialog, "Back to Home" and "Back to Trending" set the
\* query and the result list to empty and leave the dialog-open flag, the
\* selected item, the detail record, the trending list and both busy flags
\* unchanged; so the dialog-open flag, once true, is true ever after.
C12_BackToHomeFrame ==
  /\ [][(Dismiss \/ BackToHome \/ BackToTrending) =>
          /\ searchQuery' = <<>>
          /\ movies' = <<>>
          /\ isDialogOpen' = isDialogOpen
          /\ selectedMovie' = selectedMovie
          /\ movieDetails' = movieDetails
          /\ trendingMovies' = trendingMovies
          /\ loading' = loading
          /\ trendingLoading' = trendingLoading]_vars
  /\ [][isDialogOpen => isDialogOpen']_vars

\* a card of the one successful search was activated and its record fetched;
\* then the dialog was dismissed: query and list are empty, the flag is still
\* set and the selected item and its record are still there
C12_Witness ==
  /\ Len(invocations) = 1
  /\ Hits(invocations[1]) # <<>>
  /\ toasts["searchComplete"] = 1
  /\ searchPending = <<>>
  /\ searchQuery = <<>>
  /\ movies = <<>>
  /\ activations = 1
  /\ isDialogOpen
  /\ selectedMovie = Movie(3)
  /\ movieDetails = Details(3)
  /\ ~DialogShown

====
